---- MODULE Spec2Model ----
(***************************************************************************)
(* Model of casics/downloader: get_sources (the scheduling loop over a     *)
(* ThreadPoolExecutor), do_download/download (the per-item pipeline) and   *)
(* unzip_archive, over an abstract staging directory and destination tree. *)
(***************************************************************************)
EXTENDS Integers, Sequences, FiniteSets, TLC

\* ------------------------------------------------------------------------
\* Bounds of the model
\* ------------------------------------------------------------------------
MaxItems      == 2      \* longest worklist of the pipeline specification
MaxItemsSched == 52     \* longest worklist of the scheduler specification
MaxThreads    == 2      \* largest worker count
MaxAhead      == 2      \* most futures started and not yet consumed
MaxAheadSched == 1      \* the same, in the scheduler specification

\* ------------------------------------------------------------------------
\* Program constants
\* ------------------------------------------------------------------------
_MAX_FAILURES == 10
_MAX_RETRIES  == 3
PathDigits    == 8

\* ------------------------------------------------------------------------
\* The metadata store (repos.find_one) and the remote archives
\* ------------------------------------------------------------------------
UnknownId == 9
RepoIds   == {1, 2, 3}
Ids       == {1, 2, UnknownId}
SchedIds  == {3, UnknownId}

\* Repositories 1 and 2 have the same name and default branch under
\* different owners.
Entry(id) ==
  CASE id = 1 -> [_id |-> 1, owner |-> "alice", name |-> "proj", default_branch |-> "master"]
    [] id = 2 -> [_id |-> 2, owner |-> "bob",   name |-> "proj", default_branch |-> "master"]
    [] id = 3 -> [_id |-> 3, owner |-> "alice", name |-> "lib",  default_branch |-> "master"]

\* The zip exports name their root directory <name>-<branch>; the file the
\* fetch writes is named after it as well.
RootName(e) == <<e.name, e.default_branch>>

\* infolist() of the archive of a repository: the root directory entry
\* first, then the files.  content is the stored bytes (tagged with the
\* repository they come from), magic what libmagic says about them.
Archive(id) ==
  CASE id = 1 -> << [name |-> "/", content |-> <<>>,         magic |-> "empty"],
                    [name |-> "a", content |-> <<"a", 1>>,   magic |-> "ASCII text"],
                    [name |-> "b", content |-> <<"b", 1>>,   magic |-> "data"] >>
    [] id = 2 -> << [name |-> "/", content |-> <<>>,         magic |-> "empty"],
                    [name |-> "a", content |-> <<"a", 2>>,   magic |-> "UTF-8 Unicode text"] >>
    [] id = 3 -> << [name |-> "/", content |-> <<>>,         magic |-> "empty"],
                    [name |-> "e", content |-> <<>>,         magic |-> "empty"] >>

\* ------------------------------------------------------------------------
\* generate_path
\* ------------------------------------------------------------------------
Pow10(n) == IF n = 0 THEN 1 ELSE
            IF n = 1 THEN 10 ELSE
            IF n = 2 THEN 100 ELSE
            IF n = 3 THEN 1000 ELSE
            IF n = 4 THEN 10000 ELSE
            IF n = 5 THEN 100000 ELSE
            IF n = 6 THEN 1000000 ELSE
            IF n = 7 THEN 10000000 ELSE
            IF n = 8 THEN 100000000 ELSE 1000000000

\* number of decimal digits of a non-negative integer below 10^9 (the
\* identifiers of the model stay below it)
NumDigits(n) == CHOOSE d \in 1..9 : n < Pow10(d) /\ (d = 1 \/ n >= Pow10(d - 1))

\* '{:09}'.format(id)
Format08_Nine(id) ==
  LET a == IF id < 0 THEN 0 - id ELSE id
      n == NumDigits(a) + (IF id < 0 THEN 1 ELSE 0)
      w == IF n > PathDigits + 1 THEN n ELSE PathDigits + 1
  IN  [i \in 1..w |-> IF id < 0 /\ i = 1 THEN -1
                      ELSE (a \div Pow10(w - i)) % 10]

\* '{:08}'.format(id): at least 8 characters, the sign of a negative
\* number first, then the zeros of the padding, then the digits.  The
\* characters are returned as a sequence of digits, -1 standing for '-'.
Format08(id) ==
  LET a == IF id < 0 THEN 0 - id ELSE id
      n == NumDigits(a) + (IF id < 0 THEN 1 ELSE 0)
      w == IF n > PathDigits THEN n ELSE PathDigits
  IN  [i \in 1..w |-> IF id < 0 /\ i = 1 THEN -1
                      ELSE (a \div Pow10(w - i)) % 10]

\* os.path.join(root, s[0:2], s[2:4], s[4:6], s[6:8]); root is left implicit
generate_path(id) ==
  LET s == Format08(id)
  IN  << <<s[1], s[2]>>, <<s[3], s[4]>>, <<s[5], s[6]>>, <<s[7], s[8]>> >>

Paths == {generate_path(i) : i \in RepoIds \cup {UnknownId}}

\* os.path.dirname(localpath)
Dirname(p) == SubSeq(p, 1, 3)

\* ------------------------------------------------------------------------
\* State
\* ------------------------------------------------------------------------
VARIABLES
  threads,      \* max_workers of the executor
  id_list,      \* the worklist when it is given in advance; <<>> when its
                \* elements are drawn one by one as the workers take them
  arg,          \* the arguments of a function of the program called on
                \* its own, <<>> in a run of get_sources
  result,       \* what that call returned, <<>> before it
  slept,        \* the arguments of the calls of sleep() so far
  started,      \* number of work items a worker has taken from the queue
  closed,       \* the iterator over id_list is exhausted
  futures,      \* futures taken by a worker and not yet consumed, in order
  mainpc,       \* position of the thread running get_sources
  count,        \* get_sources: count
  failures,     \* get_sources: failures
  retries,      \* get_sources: retries
  zips,         \* staging directory: downloaded archive files
  stagedirs,    \* staging directory: directories present
  stagefiles,   \* staging directory: extracted files
  dest,         \* destination tree: localpath -> directory or absent
  parents,      \* destination tree: ancestor directories created
  streak,       \* history: failures at the end of the accounted outcomes
  pausesNoSucc, \* history: pauses since the last accounted success
  clean,        \* history: the identifiers drawn so far are known and
                \* pairwise distinct, and no lookup, fetch or extraction
                \* met an error
  seen          \* history: the identifiers drawn, as long as clean

vars == <<threads, id_list, arg, result, slept, started, closed, futures, mainpc, count, failures, retries,
          zips, stagedirs, stagefiles, dest, parents,
          streak, pausesNoSucc, clean, seen>>

sched == <<mainpc, count, failures, retries, streak, pausesNoSucc>>
fs    == <<zips, stagedirs, stagefiles, dest, parents>>
hist  == <<clean, seen>>

NoFile == [base |-> <<"", "">>, n |-> 0]
Absent == [exists |-> FALSE, files |-> {}]

\* the test of line 246 with the listing negated
AlreadyPresent_Negated(d, p) == d[p].exists /\ d[p].files = {}

\* os.path.exists(localpath) and os.listdir(localpath)
AlreadyPresent(d, p) == d[p].exists /\ d[p].files # {}

Min(S) == CHOOSE x \in S : \A y \in S : x <= y

\* wget.download returned: no exception
NoError == [ok |-> TRUE, hascode |-> FALSE, code |-> 0]

\* a future taken by a worker: the locals of do_download/download (ex is
\* the exception of line 256), the requests made to find the archive
\* (reqs) and what the scrape yielded (scr)
Item(id) == [id |-> id, pc |-> "start", res |-> "none", outfile |-> NoFile,
             k |-> 0, reqs |-> <<>>, scr |-> "none", ex |-> NoError]

\* return from download with a failed item run again from the start
Ret_Retry(it, r) ==
  IF r = "fail" /\ it.pc # "start"
  THEN [it EXCEPT !.pc = "start", !.outfile = NoFile, !.k = 0]
  ELSE [it EXCEPT !.pc = "ret", !.res = r, !.outfile = NoFile, !.k = 0]

\* return from do_download
Ret(it, r) == [it EXCEPT !.pc = "ret", !.res = r, !.outfile = NoFile, !.k = 0]

\* an exception leaves do_download: the future holds it in place of a result
Raise(it) == [Item(0) EXCEPT !.pc = "ret", !.res = "exc"]

Running == {i \in DOMAIN futures : futures[i].pc # "ret"}

\* int(not success), line 204: the outcome is used for its truth value only
Success(res) == res \in {"skip", "done"}

\* ------------------------------------------------------------------------
\* Init
\* ------------------------------------------------------------------------
\* the values of the option -t: 1 by default, or any integer
ConfiguredThreads == (-1)..MaxThreads

\* lines 169-171 without the replacement
main_threads_AsGiven(t) == t

\* lines 169-171: if threads < 1: threads = 1
main_threads(t) == IF t < 1 THEN 1 ELSE t

InitCommon ==
  /\ threads \in {main_threads(t) : t \in ConfiguredThreads}
  /\ started = 0
  /\ closed = FALSE
  /\ futures = <<>>
  /\ mainpc = "loop"
  /\ count = 0
  /\ failures = 0
  /\ retries = 0
  /\ zips = {}
  /\ stagedirs = {}
  /\ stagefiles = {}
  /\ parents = {}
  /\ streak = 0
  /\ pausesNoSucc = 0
  /\ slept = <<>>
  /\ clean = TRUE
  /\ seen = {}

\* get_sources runs: no function is called on its own
NoCall == arg = <<>> /\ result = <<>>

\* the destination tree is empty
Init ==
  /\ InitCommon
  /\ id_list = <<>>
  /\ NoCall
  /\ dest = [p \in Paths |-> Absent]

\* ------------------------------------------------------------------------
\* get_sources: the executor and the loop over the results
\* ------------------------------------------------------------------------

\* line 204 with a reset of the counter on a success
AddFailure_Reset(f, success) == IF success THEN 0 ELSE f + 1

\* line 204: failures += int(not success)
AddFailure(f, success) == f + (IF success THEN 0 ELSE 1)

\* line 212 with the same pause every time
SleepSeconds_Flat(r) == 300

\* line 212: sleep(300 * retries)
SleepSeconds(r) == 300 * r

\* line 207: retries <= _MAX_RETRIES
MayPause(r) == r <= _MAX_RETRIES

\* lines 191-196 with an unknown identifier skipped as if it were present
DoDownload_SkipUnknown(U, Max, Ahead) ==
  /\ mainpc \in {"loop", "sleeping"}
  /\ ~closed
  /\ started < Max
  /\ Len(futures) < Ahead
  /\ Cardinality(Running) < threads
  /\ \E id \in U, db \in {"answer", "raise"} :
       /\ started' = started + 1
       /\ clean' = (clean /\ db = "answer" /\ id \in RepoIds /\ id \notin seen)
       /\ seen' = IF clean' THEN seen \cup {id} ELSE {}
       /\ futures' = Append(futures,
             IF db = "raise" THEN Raise(Item(id))
             ELSE IF id \notin RepoIds THEN Ret(Item(id), "skip")
             ELSE Item(id))
  /\ UNCHANGED <<threads, id_list, arg, result, slept, closed>>
  /\ UNCHANGED sched
  /\ UNCHANGED fs

\* A free worker thread takes the next work item of executor.map from the
\* queue and runs do_download up to the answer of repos.find_one.  The
\* identifier is the next element of id_list (taken from U); the items
\* still queued are cancelled once the result generator is closed (break,
\* or an exception leaving the loop).
DoDownload(U, Max, Ahead) ==
  /\ mainpc \in {"loop", "sleeping"}
  /\ ~closed
  /\ started < Max
  /\ Len(futures) < Ahead
  /\ Cardinality(Running) < threads
  /\ \E id \in U, db \in {"answer", "raise"} :
       /\ started' = started + 1
       /\ clean' = (clean /\ db = "answer" /\ id \in RepoIds /\ id \notin seen)
       /\ seen' = IF clean' THEN seen \cup {id} ELSE {}
       /\ futures' = Append(futures,
             IF db = "raise" THEN Raise(Item(id))
             ELSE IF id \notin RepoIds THEN Ret(Item(id), "fail")
             ELSE Item(id))
  /\ UNCHANGED <<threads, id_list, arg, result, slept, closed>>
  /\ UNCHANGED sched
  /\ UNCHANGED fs

\* iter(id_list) is exhausted: the worklist has `started` elements
EndOfList ==
  /\ mainpc \in {"loop", "sleeping"}
  /\ ~closed
  /\ closed' = TRUE
  /\ UNCHANGED <<threads, id_list, arg, result, slept, started, futures>>
  /\ UNCHANGED sched
  /\ UNCHANGED fs
  /\ UNCHANGED hist

\* line 203 with the results taken newest first
NextFuture_Newest(q) == Len(q)

\* line 203: executor.map yields the results in the order of id_list,
\* whatever the order in which the workers finish: the loop waits for the
\* oldest future
NextFuture(q) == 1

\* One iteration of the for loop (lines 203-223) up to the sleep, the
\* break or the end of the body.  The result of the first future is
\* delivered; an exception stored in it is raised in get_sources.
NextResult ==
  /\ mainpc = "loop"
  /\ futures # <<>>
  /\ futures[NextFuture(futures)].pc = "ret"
  /\ LET n   == NextFuture(futures)
         r   == futures[n].res
         ok  == Success(r)
         f1  == AddFailure(failures, ok)
     IN  /\ futures' = SubSeq(futures, 1, n - 1)
                         \o SubSeq(futures, n + 1, Len(futures))
         /\ IF r = "exc"
            THEN /\ mainpc' = "raising"
                 /\ UNCHANGED <<count, failures, retries, streak, pausesNoSucc,
                                slept>>
            ELSE /\ streak' = IF ok THEN 0
                              ELSE IF streak < _MAX_FAILURES THEN streak + 1
                              ELSE streak
                 /\ IF f1 >= _MAX_FAILURES
                    THEN IF MayPause(retries)
                         THEN /\ retries' = retries + 1
                              /\ failures' = f1
                              /\ mainpc' = "sleeping"
                              /\ slept' = Append(slept, SleepSeconds(retries'))
                              /\ pausesNoSucc' = (IF ok THEN 0 ELSE pausesNoSucc) + 1
                              /\ UNCHANGED count
                         ELSE /\ mainpc' = "stopping"
                              /\ failures' = f1
                              /\ pausesNoSucc' = IF ok THEN 0 ELSE pausesNoSucc
                              /\ UNCHANGED <<count, retries, slept>>
                    ELSE /\ failures' = f1
                         /\ count' = count + 1
                         /\ pausesNoSucc' = IF ok THEN 0 ELSE pausesNoSucc
                         /\ UNCHANGED <<retries, mainpc, slept>>
  /\ UNCHANGED <<threads, id_list, arg, result, started, closed>>
  /\ UNCHANGED fs
  /\ UNCHANGED hist

\* lines 212-220: sleep(300 * retries) returns, the counter is reset and
\* the iteration ends
Wake ==
  /\ mainpc = "sleeping"
  /\ mainpc' = "loop"
  /\ failures' = 0
  /\ count' = count + 1
  /\ UNCHANGED <<threads, id_list, arg, result, slept, started, closed, futures, retries, streak, pausesNoSucc>>
  /\ UNCHANGED fs
  /\ UNCHANGED hist

\* the exit of the with block without the wait for the workers
Shutdown_NoWait == TRUE

\* the exit of the with block of line 201: shutdown(wait=True) returns
\* when no worker runs an item
Shutdown == Running = {}

\* the loop ends with the worklist; the "Done" message
Finish ==
  /\ mainpc = "loop"
  /\ closed
  /\ futures = <<>>
  /\ mainpc' = "done"
  /\ UNCHANGED <<threads, id_list, arg, result, slept, started, closed, futures, count, failures, retries,
                 streak, pausesNoSucc>>
  /\ UNCHANGED fs
  /\ UNCHANGED hist

\* after the break: the executor's shutdown(wait=True) returns when no
\* worker runs; the "Done" message
Stop ==
  /\ mainpc = "stopping"
  /\ Shutdown
  /\ mainpc' = "aborted"
  /\ UNCHANGED <<threads, id_list, arg, result, slept, started, closed, futures, count, failures, retries,
                 streak, pausesNoSucc>>
  /\ UNCHANGED fs
  /\ UNCHANGED hist

\* an exception of a work item leaves get_sources, after the executor's
\* shutdown(wait=True)
Crash ==
  /\ mainpc = "raising"
  /\ Shutdown
  /\ mainpc' = "crashed"
  /\ UNCHANGED <<threads, id_list, arg, result, slept, started, closed, futures, count, failures, retries,
                 streak, pausesNoSucc>>
  /\ UNCHANGED fs
  /\ UNCHANGED hist

\* ------------------------------------------------------------------------
\* The resolver's fallback tiers
\* ------------------------------------------------------------------------

\* Python's slice bounds: a negative index counts from the end, and the
\* result is clipped to 0..len
PyIndex(s, x) == IF x < 0 THEN (IF Len(s) + x < 0 THEN 0 ELSE Len(s) + x)
                 ELSE (IF x > Len(s) THEN Len(s) ELSE x)

\* str.find(t, start, end) on a page given as a sequence of tokens; the
\* positions are 0-based as in Python, -1 is "not found"
PyFind(s, t, start, end) ==
  LET c == {i \in PyIndex(s, start)..(PyIndex(s, end) - 1) : s[i + 1] = t}
  IN  IF c = {} THEN -1 ELSE Min(c)

\* s[a:b]
PySlice(s, a, b) ==
  LET lo == PyIndex(s, a)
      hi == PyIndex(s, b)
  IN  IF hi <= lo THEN <<>> ELSE SubSeq(s, lo + 1, hi)

None == [none |-> TRUE, url |-> <<>>]
Url(u) == [none |-> FALSE, url |-> u]

\* get_home_page_text: r.text if r.status_code == 200 else None
get_home_page_text(resp) == IF resp.status = 200 THEN Url(resp.text) ELSE None

\* get_archive_url_by_scraping, on the answer of requests.get.  The tokens
\* are "MARK" (<div class="file-navigation-option">), "HREF" (<a href="),
\* "Q" ("), "ZIP" (Download ZIP), "/" (the character the slice skips) and
\* other characters.
get_archive_url_by_scraping(resp) ==
  LET page == get_home_page_text(resp)
      html == page.url
      n    == Len(html)
      regionstart == PyFind(html, "MARK", 0, n)
      regionend   == PyFind(html, "ZIP", regionstart, n)
      pathstart   == PyFind(html, "HREF", regionstart, regionend)
      pathstartlen == 1
      pathend     == PyFind(html, "Q", pathstart + pathstartlen, n)
  IN  IF page.none \/ html = <<>> THEN None
      ELSE IF regionstart < 1 THEN None
      ELSE IF pathstart = 0 THEN None
      ELSE Url(<<"http://github.com/">>
               \o PySlice(html, pathstart + pathstartlen + 1, pathend))

\* the answers of requests.get the model draws from
Pages ==
  { <<"x", "MARK", "x", "HREF", "/", "p", "Q", "x", "ZIP">>,
    <<"x", "MARK", "x", "ZIP">>,
    <<"x", "MARK", "ZIP", "HREF", "/", "p", "Q">>,
    <<"x", "MARK", "HREF", "/", "p", "Q">>,
    <<"MARK", "HREF", "/", "p", "Q", "ZIP">>,
    <<"x", "x">>,
    <<>> }

PageResponses ==
  {[status |-> 200, text |-> t] : t \in Pages}
    \cup {[status |-> 404, text |-> <<"x", "x">>]}

\* get_archive_url_by_api, on the answer of the zipball request: a 302
\* with or without a Location header, a 200, or another status.  A 200
\* calls response.readall(), which http.client's response may not have:
\* reads tells whether the call returns the body.
ApiResponses ==
  { [status |-> 302, location |-> TRUE,  reads |-> TRUE],
    [status |-> 302, location |-> FALSE, reads |-> TRUE],
    [status |-> 200, location |-> FALSE, reads |-> TRUE],
    [status |-> 200, location |-> FALSE, reads |-> FALSE],
    [status |-> 401, location |-> FALSE, reads |-> TRUE],
    [status |-> 404, location |-> FALSE, reads |-> TRUE] }

ApiRaises(resp) == resp.status = 200 /\ ~resp.reads

get_archive_url_by_api(resp) ==
  IF resp.status = 302
  THEN IF resp.location THEN Url(<<"location">>) ELSE None
  ELSE IF resp.status = 200 THEN Url(<<"body">>)
  ELSE None

\* ------------------------------------------------------------------------
\* download: the pipeline of one item
\* ------------------------------------------------------------------------

\* wget.download(url, out=tmpdir): the file is named after the archive;
\* a name already taken gets the first free number appended
WgetName(z, base) ==
  [base |-> base,
   n |-> Min({k \in 0..Cardinality(z) : ~\E f \in z : f.base = base /\ f.n = k})]

\* line 261 with the test of the status code left out
IsNotFound_AnyCode(ex) == ex.hascode

\* hasattr(ex, 'code') and ex.code == 404
IsNotFound(ex) == ex.hascode /\ ex.code = 404

\* what wget.download may do: return, or raise an error that carries a
\* status code or none
FetchResults ==
  { NoError,
    [ok |-> FALSE, hascode |-> TRUE,  code |-> 404],
    [ok |-> FALSE, hascode |-> TRUE,  code |-> 500],
    [ok |-> FALSE, hascode |-> FALSE, code |-> 0] }

\* the archive is in the staging directory: of the requests made for it
\* the item keeps only that it was fetched
Fetched(it) == [it EXCEPT !.pc = "unzip", !.reqs = <<"fetched">>,
                         !.scr = "none", !.ex = NoError]

\* line 246 with the skip counted by the worker itself
DownloadStart_Counting(i) ==
  /\ futures[i].pc = "start"
  /\ LET it == futures[i]
         localpath == generate_path(Entry(it.id)._id)
     IN  /\ futures' = [futures EXCEPT ![i] =
              IF AlreadyPresent(dest, localpath) THEN Ret(it, "skip")
              ELSE [it EXCEPT !.pc = "fetch"]]
         /\ count' = count + 1
  /\ UNCHANGED <<threads, id_list, arg, result, slept, started, closed>>
  /\ UNCHANGED <<mainpc, failures, retries, streak, pausesNoSucc>>
  /\ UNCHANGED fs
  /\ UNCHANGED hist

\* line 246: the destination is already populated
DownloadStart(i) ==
  /\ futures[i].pc = "start"
  /\ LET it == futures[i]
         localpath == generate_path(Entry(it.id)._id)
     IN  futures' = [futures EXCEPT ![i] =
           IF AlreadyPresent(dest, localpath) THEN Ret(it, "skip")
           ELSE [it EXCEPT !.pc = "fetch"]]
  /\ UNCHANGED <<threads, id_list, arg, result, slept, started, closed>>
  /\ UNCHANGED sched
  /\ UNCHANGED fs
  /\ UNCHANGED hist

\* lines 252-285: the fetch of the default-branch archive
Fetch(i) ==
  /\ futures[i].pc = "fetch"
  /\ \E r \in FetchResults :
       LET it == [futures[i] EXCEPT !.reqs = Append(@, "default"), !.ex = r]
           f  == WgetName(zips, RootName(Entry(it.id)))
       IN  /\ clean' = (clean /\ r.ok)
           /\ seen' = IF clean' THEN seen ELSE {}
           /\ IF r.ok
              THEN /\ zips' = zips \cup {f}
                   /\ futures' = [futures EXCEPT ![i] =
                                    [Fetched(it) EXCEPT !.outfile = f]]
              ELSE /\ UNCHANGED zips
                   /\ futures' = [futures EXCEPT ![i] =
                        IF IsNotFound(r) THEN [it EXCEPT !.pc = "scrape"]
                        ELSE Ret(it, "fail")]
  /\ UNCHANGED <<threads, id_list, arg, result, slept, started, closed>>
  /\ UNCHANGED sched
  /\ UNCHANGED <<stagedirs, stagefiles, dest, parents>>

\* lines 265-272 with the API asked whatever the scrape yields
AfterScrape_AlwaysApi(newurl) == "api"

\* lines 265-272: if newurl: fetch it, else: ask the API
AfterScrape(newurl) == IF newurl.none THEN "api" ELSE "fetch2"

\* line 264: newurl = get_archive_url_by_scraping(entry); requests.get
\* may raise
Scrape(i) ==
  /\ futures[i].pc = "scrape"
  /\ LET it == [futures[i] EXCEPT !.reqs = Append(@, "scrape")]
     IN  \/ futures' = [futures EXCEPT ![i] = Raise(it)]
         \/ \E resp \in PageResponses :
              LET newurl == get_archive_url_by_scraping(resp)
              IN  futures' = [futures EXCEPT ![i] =
                    [it EXCEPT !.pc = AfterScrape(newurl),
                               !.scr = IF newurl.none THEN "nf" ELSE "url"]]
  /\ UNCHANGED <<threads, id_list, arg, result, slept, started, closed>>
  /\ UNCHANGED sched
  /\ UNCHANGED fs
  /\ UNCHANGED hist

\* the answer of the API to a request with credentials it rejects
RejectedResponses == {[status |-> 401, location |-> FALSE, reads |-> TRUE]}

\* line 272: newurl = get_archive_url_by_api(entry, user, password); the
\* answer is drawn from Resps
Api(i, Resps) ==
  /\ futures[i].pc = "api"
  /\ LET it == [futures[i] EXCEPT !.reqs = Append(@, "api")]
     IN  \/ futures' = [futures EXCEPT ![i] = Raise(it)]
         \/ \E resp \in Resps :
              LET newurl == get_archive_url_by_api(resp)
              IN  futures' = [futures EXCEPT ![i] =
                    IF ApiRaises(resp) THEN Raise(it)
                    ELSE IF newurl.none THEN Ret(it, "fail")
                    ELSE [it EXCEPT !.pc = "fetch2"]]
  /\ UNCHANGED <<threads, id_list, arg, result, slept, started, closed>>
  /\ UNCHANGED sched
  /\ UNCHANGED fs
  /\ UNCHANGED hist

\* lines 267 and 275: the fetch of the archive the fallback resolved
Fetch2(i) ==
  /\ futures[i].pc = "fetch2"
  /\ \E ok \in BOOLEAN :
       LET it == [futures[i] EXCEPT !.reqs = Append(@, "fallback")]
           f  == WgetName(zips, RootName(Entry(it.id)))
       IN  IF ok
           THEN /\ zips' = zips \cup {f}
                /\ futures' = [futures EXCEPT ![i] =
                                 [Fetched(it) EXCEPT !.outfile = f]]
           ELSE /\ UNCHANGED zips
                /\ futures' = [futures EXCEPT ![i] = Ret(it, "fail")]
  /\ UNCHANGED <<threads, id_list, arg, result, slept, started, closed>>
  /\ UNCHANGED sched
  /\ UNCHANGED <<stagedirs, stagefiles, dest, parents>>
  /\ UNCHANGED hist

\* ------------------------------------------------------------------------
\* unzip_archive and the move to the destination
\* ------------------------------------------------------------------------

\* probably_text: empty content is text, else what libmagic says
probably_text(content, magic) ==
  IF content = <<>> THEN TRUE
  ELSE magic \in {"ASCII text", "UTF-8 Unicode text"}

\* name.endswith('/')
IsDirEntry(c) == c.name = "/"

\* outdir: os.path.join(os.path.dirname(file), infolist[0].filename)
Outdir(id) == RootName(Entry(id))

\* what zipfile.ZipFile(file) finds in the downloaded file
ZipStates == {"good", "corrupt", "empty"}

\* lines 289-295 with the downloaded file removed when unzip_archive
\* raises as well
UnzipOpen_Removing(i) ==
  /\ futures[i].pc = "unzip"
  /\ LET it == futures[i]
         me == {f \in zips : f.base = it.outfile.base /\ f.n = it.outfile.n}
     IN  IF me = {}
         THEN /\ futures' = [futures EXCEPT ![i] = Raise(it)]
              /\ UNCHANGED zips
              /\ UNCHANGED hist
         ELSE \E z \in ZipStates :
                /\ clean' = (clean /\ z = "good")
                /\ seen' = IF clean' THEN seen ELSE {}
                /\ zips' = IF z = "good" THEN zips ELSE zips \ me
                /\ futures' = [futures EXCEPT ![i] =
                     IF z = "good" THEN [it EXCEPT !.pc = "entry", !.k = 1]
                     ELSE [Ret(it, "fail") EXCEPT !.outfile = it.outfile]]
  /\ UNCHANGED <<threads, id_list, arg, result, slept, started, closed>>
  /\ UNCHANGED sched
  /\ UNCHANGED <<stagedirs, stagefiles, dest, parents>>

\* lines 289-291 and 324-328: file_size(outfile), then the archive is
\* opened and its infolist read.  A corrupt archive raises in ZipFile, an
\* archive without entries leaves outdir unbound at the return: both are
\* caught at line 293.  file_size is outside the try.
UnzipOpen(i) ==
  /\ futures[i].pc = "unzip"
  /\ LET it == futures[i]
     IN  IF ~\E f \in zips : f.base = it.outfile.base /\ f.n = it.outfile.n
         THEN /\ futures' = [futures EXCEPT ![i] = Raise(it)]
              /\ UNCHANGED hist
         ELSE \E z \in ZipStates :
                /\ clean' = (clean /\ z = "good")
                /\ seen' = IF clean' THEN seen ELSE {}
                /\ futures' = [futures EXCEPT ![i] =
                     IF z = "good" THEN [it EXCEPT !.pc = "entry", !.k = 1]
                     ELSE [Ret(it, "fail") EXCEPT !.outfile = it.outfile]]
  /\ UNCHANGED <<threads, id_list, arg, result, slept, started, closed>>
  /\ UNCHANGED sched
  /\ UNCHANGED fs

\* the stored bytes written whatever the content is
Written_WithPayload(root, c) ==
  [root |-> root, name |-> c.name, data |-> c.content]

\* the file written for a component: the stored bytes for a text, an empty
\* file (os.mknod) for a binary
Written(root, c) ==
  [root |-> root, name |-> c.name,
   data |-> IF probably_text(c.content, c.magic) THEN c.content ELSE <<>>]

\* whether the read of a file entry or the write of its file raises
EntryErrors  == BOOLEAN
NoEntryError == {FALSE}

\* lines 329-351: one component of the archive.  The read of a file
\* entry or the write of its file may raise (err, drawn from Errs); the
\* except clause of line 350 swallows the error and the entry is skipped.
UnzipEntry(i, Errs) ==
  /\ futures[i].pc = "entry"
  /\ futures[i].k <= Len(Archive(futures[i].id))
  /\ LET it   == futures[i]
         c    == Archive(it.id)[it.k]
         root == Outdir(it.id)
         old  == {f \in stagefiles : f.root = root /\ f.name = c.name}
     IN  \E err \in IF IsDirEntry(c) THEN NoEntryError ELSE Errs :
           /\ stagedirs' = stagedirs \cup {root}
           /\ stagefiles' =
                IF IsDirEntry(c) \/ err THEN stagefiles
                ELSE IF probably_text(c.content, c.magic)
                     THEN (stagefiles \ old) \cup {Written(root, c)}
                \* os.mknod raises on an existing file; the error is swallowed
                ELSE IF old # {} THEN stagefiles
                ELSE stagefiles \cup {Written(root, c)}
           /\ clean' = (clean /\ ~err)
           /\ seen' = IF clean' THEN seen ELSE {}
           /\ futures' = [futures EXCEPT ![i] = [it EXCEPT !.k = it.k + 1]]
  /\ UNCHANGED <<threads, id_list, arg, result, slept, started, closed>>
  /\ UNCHANGED sched
  /\ UNCHANGED <<zips, dest, parents>>

\* lines 353-354 and 292: the archive is closed, outdir returned and the
\* downloaded file removed
UnzipReturn(i) ==
  /\ futures[i].pc = "entry"
  /\ futures[i].k > Len(Archive(futures[i].id))
  /\ LET it == futures[i]
         me == {f \in zips : f.base = it.outfile.base /\ f.n = it.outfile.n}
     IN  /\ zips' = zips \ me
         /\ futures' = [futures EXCEPT ![i] =
              IF me = {} THEN Ret(it, "fail")
              ELSE [it EXCEPT !.pc = "makedirs", !.outfile = NoFile, !.k = 0]]
  /\ UNCHANGED <<threads, id_list, arg, result, slept, started, closed>>
  /\ UNCHANGED sched
  /\ UNCHANGED <<stagedirs, stagefiles, dest, parents>>
  /\ UNCHANGED hist

\* line 297: os.makedirs(os.path.dirname(localpath), exist_ok=True)
MakeDirs(i) ==
  /\ futures[i].pc = "makedirs"
  /\ LET it == futures[i]
         localpath == generate_path(Entry(it.id)._id)
     IN  /\ parents' = parents \cup {Dirname(localpath)}
         /\ futures' = [futures EXCEPT ![i] = [it EXCEPT !.pc = "rename"]]
  /\ UNCHANGED <<threads, id_list, arg, result, slept, started, closed>>
  /\ UNCHANGED sched
  /\ UNCHANGED <<zips, stagedirs, stagefiles, dest>>
  /\ UNCHANGED hist

\* line 298 with the error of os.rename caught and returned as a failure
Rename_Caught(i) ==
  /\ futures[i].pc = "rename"
  /\ LET it == futures[i]
         localpath == generate_path(Entry(it.id)._id)
         outdir == Outdir(it.id)
         moved  == {f \in stagefiles : f.root = outdir}
     IN  IF outdir \notin stagedirs
            \/ (dest[localpath].exists /\ dest[localpath].files # {})
         THEN /\ futures' = [futures EXCEPT ![i] = Ret(it, "fail")]
              /\ UNCHANGED <<stagedirs, stagefiles, dest>>
         ELSE /\ dest' = [dest EXCEPT ![localpath] =
                    [exists |-> TRUE,
                     files |-> {[name |-> f.name, data |-> f.data] : f \in moved}]]
              /\ stagedirs' = stagedirs \ {outdir}
              /\ stagefiles' = stagefiles \ moved
              /\ futures' = [futures EXCEPT ![i] = Ret(it, "done")]
  /\ UNCHANGED <<threads, id_list, arg, result, slept, started, closed>>
  /\ UNCHANGED sched
  /\ UNCHANGED <<zips, parents>>
  /\ UNCHANGED hist

\* line 298: os.rename(outdir, localpath).  It raises when outdir does not
\* exist or localpath is a non-empty directory; the error is not caught.
Rename(i) ==
  /\ futures[i].pc = "rename"
  /\ LET it == futures[i]
         localpath == generate_path(Entry(it.id)._id)
         outdir == Outdir(it.id)
         moved  == {f \in stagefiles : f.root = outdir}
     IN  IF outdir \notin stagedirs
            \/ (dest[localpath].exists /\ dest[localpath].files # {})
         THEN /\ futures' = [futures EXCEPT ![i] = Raise(it)]
              /\ UNCHANGED <<stagedirs, stagefiles, dest>>
         ELSE /\ dest' = [dest EXCEPT ![localpath] =
                    [exists |-> TRUE,
                     files |-> {[name |-> f.name, data |-> f.data] : f \in moved}]]
              /\ stagedirs' = stagedirs \ {outdir}
              /\ stagefiles' = stagefiles \ moved
              /\ futures' = [futures EXCEPT ![i] = Ret(it, "done")]
  /\ UNCHANGED <<threads, id_list, arg, result, slept, started, closed>>
  /\ UNCHANGED sched
  /\ UNCHANGED <<zips, parents>>
  /\ UNCHANGED hist

\* ------------------------------------------------------------------------
\* Specifications
\* ------------------------------------------------------------------------

Submit == DoDownload(Ids, MaxItems, MaxAhead)
SubmitSched == DoDownload(SchedIds, MaxItemsSched, MaxAheadSched)

\* Short worklists over all identifiers: the pipeline and its interleavings.
\* No run this short reaches the failure threshold, so the steps after a
\* pause or a break are never enabled.  The entries of a readable archive
\* are read and written without error.
Next ==
  \/ Submit
  \/ EndOfList
  \/ NextResult
  \/ Finish
  \/ Crash
  \/ \E i \in DOMAIN futures : DownloadStart(i)
  \/ \E i \in DOMAIN futures : Fetch(i)
  \/ \E i \in DOMAIN futures : Scrape(i)
  \/ \E i \in DOMAIN futures : Api(i, ApiResponses)
  \/ \E i \in DOMAIN futures : Fetch2(i)
  \/ \E i \in DOMAIN futures : UnzipOpen(i)
  \/ \E i \in DOMAIN futures : UnzipEntry(i, NoEntryError)
  \/ \E i \in DOMAIN futures : UnzipReturn(i)
  \/ \E i \in DOMAIN futures : MakeDirs(i)
  \/ \E i \in DOMAIN futures : Rename(i)

Spec == Init /\ [][Next]_vars

\* Long worklists over an unknown identifier and a repository a previous
\* run has downloaded: the accounting of get_sources up to the pauses and
\* the break.  Every repository of the worklist being populated, the only
\* step of download that is ever enabled is the check of line 246.
Populated3 ==
  [exists |-> TRUE, files |-> {[name |-> "x", data |-> <<"x", 3>>]}]

InitSched ==
  /\ InitCommon
  /\ id_list = <<>>
  /\ NoCall
  /\ dest = [p \in Paths |-> IF p = generate_path(3) THEN Populated3 ELSE Absent]

NextSched ==
  \/ SubmitSched
  \/ EndOfList
  \/ NextResult
  \/ Wake
  \/ Finish
  \/ Stop
  \/ Crash
  \/ \E i \in DOMAIN futures : DownloadStart(i)

SpecSched == InitSched /\ [][NextSched]_vars

\* Worklists given in advance, over the same two identifiers: every
\* element has one outcome (the unknown identifier fails, the populated
\* repository is skipped), and several futures are in flight.
FixedLens    == {12, MaxItemsSched}
FixedPeriods == {5, 50, 60}

\* a worklist of n identifiers: every m-th is the populated repository,
\* the others are unknown
FixedList(n, m) == [p \in 1..n |-> IF p % m = 0 THEN 3 ELSE UnknownId]

FixedLists == {FixedList(n, m) : n \in FixedLens, m \in FixedPeriods}

InitFixed ==
  /\ InitCommon
  /\ id_list \in FixedLists
  /\ NoCall
  /\ dest = [p \in Paths |-> IF p = generate_path(3) THEN Populated3 ELSE Absent]

SubmitFixed ==
  /\ started < Len(id_list)
  /\ DoDownload({id_list[started + 1]}, Len(id_list), MaxAhead)

EndOfFixedList ==
  /\ started = Len(id_list)
  /\ EndOfList

NextFixed ==
  \/ SubmitFixed
  \/ EndOfFixedList
  \/ NextResult
  \/ Wake
  \/ Finish
  \/ Stop
  \/ Crash
  \/ \E i \in DOMAIN futures : DownloadStart(i)

SpecFixed == InitFixed /\ [][NextFixed]_vars

\* The same with the threads scheduled: a worker that can make a step
\* makes it, sleep() returns, and the loop goes on when its next result is
\* there.
SpecFixedFair == SpecFixed /\ WF_vars(NextFixed)

\* A worklist that is abandoned while items are in flight: unknown
\* identifiers up to the failure that breaks the loop, then repositories
\* 1 and 2 as far as the workers get ahead of the loop.
BreakAt == (_MAX_RETRIES + 2) * _MAX_FAILURES

AbandonList ==
  [p \in 1..(BreakAt + MaxAhead - 1) |->
     IF p = BreakAt + 1 THEN 1 ELSE IF p = BreakAt + 2 THEN 2 ELSE UnknownId]

InitAbandon ==
  /\ InitCommon
  /\ id_list = AbandonList
  /\ NoCall
  /\ dest = [p \in Paths |-> Absent]

\* the loop never gets to the end of this worklist
NextAbandon ==
  \/ SubmitFixed
  \/ EndOfFixedList
  \/ NextResult
  \/ Wake
  \/ Stop
  \/ Crash
  \/ \E i \in DOMAIN futures : DownloadStart(i)
  \/ \E i \in DOMAIN futures : Fetch(i)
  \/ \E i \in DOMAIN futures : Scrape(i)
  \/ \E i \in DOMAIN futures : Api(i, ApiResponses)
  \/ \E i \in DOMAIN futures : Fetch2(i)
  \/ \E i \in DOMAIN futures : UnzipOpen(i)
  \/ \E i \in DOMAIN futures : UnzipEntry(i, NoEntryError)
  \/ \E i \in DOMAIN futures : UnzipReturn(i)
  \/ \E i \in DOMAIN futures : MakeDirs(i)
  \/ \E i \in DOMAIN futures : Rename(i)

SpecAbandon == InitAbandon /\ [][NextAbandon]_vars

\* unzip_archive and what follows it in download, for a worklist of one
\* repository whose archive has just been fetched (line 255).  The
\* staging directory is never emptied: it may hold files an earlier run
\* extracted from an older archive of the repository and left there.  The
\* entries of the archive may fail.
StaleFiles ==
  { {},
    {[root |-> <<"proj", "master">>, name |-> "a", data |-> <<"a", 0>>]},
    {[root |-> <<"proj", "master">>, name |-> "b", data |-> <<"b", 0>>]} }

InitUnzip ==
  /\ threads \in {main_threads(t) : t \in ConfiguredThreads}
  /\ \E id \in RepoIds :
       LET f == WgetName({}, RootName(Entry(id)))
       IN  /\ id_list = <<id>>
           /\ futures = << [Fetched(Item(id)) EXCEPT !.outfile = f] >>
           /\ zips = {f}
           /\ seen = {id}
  /\ NoCall
  /\ started = 1
  /\ closed = TRUE
  /\ mainpc = "loop"
  /\ count = 0
  /\ failures = 0
  /\ retries = 0
  /\ stagefiles \in StaleFiles
  /\ stagedirs = {f.root : f \in stagefiles}
  /\ dest = [p \in Paths |-> Absent]
  /\ parents = {}
  /\ streak = 0
  /\ pausesNoSucc = 0
  /\ slept = <<>>
  /\ clean = TRUE

NextUnzip ==
  \/ NextResult
  \/ Finish
  \/ \E i \in DOMAIN futures : UnzipOpen(i)
  \/ \E i \in DOMAIN futures : UnzipEntry(i, EntryErrors)
  \/ \E i \in DOMAIN futures : UnzipReturn(i)
  \/ \E i \in DOMAIN futures : MakeDirs(i)
  \/ \E i \in DOMAIN futures : Rename(i)

SpecUnzip == InitUnzip /\ [][NextUnzip]_vars

\* Short worklists of repository 1, run with GitHub credentials that the
\* API rejects.
SubmitRejected == DoDownload({1}, MaxItems, MaxAhead)

NextRejected ==
  \/ SubmitRejected
  \/ EndOfList
  \/ NextResult
  \/ Finish
  \/ Crash
  \/ \E i \in DOMAIN futures : DownloadStart(i)
  \/ \E i \in DOMAIN futures : Fetch(i)
  \/ \E i \in DOMAIN futures : Scrape(i)
  \/ \E i \in DOMAIN futures : Api(i, RejectedResponses)
  \/ \E i \in DOMAIN futures : Fetch2(i)
  \/ \E i \in DOMAIN futures : UnzipOpen(i)
  \/ \E i \in DOMAIN futures : UnzipEntry(i, NoEntryError)
  \/ \E i \in DOMAIN futures : UnzipReturn(i)
  \/ \E i \in DOMAIN futures : MakeDirs(i)
  \/ \E i \in DOMAIN futures : Rename(i)

SpecRejected == Init /\ [][NextRejected]_vars

\* get_archive_url_by_scraping called on its own (line 264).  The pages
\* are made of an optional first character, the marker or not, the text
\* Download ZIP or not, and a link, whole or without its closing quote,
\* before the marker, between the two or after Download ZIP.
ScrapeLinks == { <<>>, <<"HREF", "/", "p", "Q">>, <<"HREF", "/", "p">> }

ScrapePages ==
  { pre \o l1 \o mark \o <<"x">> \o l2 \o zip \o l3 :
      pre \in {<<>>, <<"x">>}, mark \in {<<>>, <<"MARK">>},
      zip \in {<<>>, <<"ZIP">>},
      l1 \in ScrapeLinks, l2 \in ScrapeLinks, l3 \in {<<>>, <<"HREF", "/", "p", "Q">>} }

\* what requests.get does: it returns a response or raises (no route to
\* the host, a timeout)
ScrapeAnswers ==
  {[status |-> st, text |-> t, raises |-> FALSE] :
      st \in {200, 404}, t \in ScrapePages \cup {<<>>}}
    \cup {[status |-> 0, text |-> <<>>, raises |-> TRUE]}

InitScrape ==
  /\ InitCommon
  /\ id_list = <<>>
  /\ dest = [p \in Paths |-> Absent]
  /\ arg \in {<<a>> : a \in ScrapeAnswers}
  /\ result = <<>>

CallScrape ==
  /\ arg # <<>>
  /\ result = <<>>
  /\ result' = << IF arg[1].raises
                  THEN [raised |-> TRUE, value |-> None]
                  ELSE [raised |-> FALSE,
                        value |-> get_archive_url_by_scraping(arg[1])] >>
  /\ UNCHANGED <<threads, id_list, arg, slept, started, closed, futures>>
  /\ UNCHANGED sched
  /\ UNCHANGED fs
  /\ UNCHANGED hist

NextScrape == CallScrape

SpecScrape == InitScrape /\ [][NextScrape]_vars

\* generate_path called on its own for the two identifiers of a worklist
\* (line 229).  The identifiers are what int() parses at lines 143-147:
\* of any sign and of any number of digits.
PathIds ==
  { 0, 1, 62, 156399, 7182480, 10000000, 99999999,
    100000000, 100000001, 123456789, 999999999,
    -5, -1234567, -12345678, -12345679 }

InitPath ==
  /\ InitCommon
  /\ id_list = <<>>
  /\ dest = [p \in Paths |-> Absent]
  /\ arg \in PathIds \X PathIds
  /\ result = <<>>

CallGeneratePath ==
  /\ arg # <<>>
  /\ result = <<>>
  /\ result' = <<generate_path(arg[1]), generate_path(arg[2])>>
  /\ UNCHANGED <<threads, id_list, arg, slept, started, closed, futures>>
  /\ UNCHANGED sched
  /\ UNCHANGED fs
  /\ UNCHANGED hist

NextPath == CallGeneratePath

SpecPath == InitPath /\ [][NextPath]_vars

\* ------------------------------------------------------------------------
\* Properties
\* ------------------------------------------------------------------------

Range(f) == {f[x] : x \in DOMAIN f}

\* the step delivers the first future to the loop of get_sources
Delivered == Len(futures') < Len(futures)

\* the step is one of the worker running future i
Moved(i) == /\ Len(futures') = Len(futures)
            /\ futures'[i] # futures[i]

\* C1: a pause or a break is taken only when the 10 outcomes accounted
\* last were all failures (a success in between resets the counter).
C1_PauseOnlyAfterTenFailures ==
  mainpc \in {"sleeping", "stopping"} => streak >= _MAX_FAILURES

\* C2: at most 3 pauses are taken without a success accounted in between;
\* the threshold reached after 3 such pauses breaks the loop.
C2_AtMostThreePauses == pausesNoSucc <= _MAX_RETRIES

\* C3: the run is abandoned only if the pauses that used up the budget
\* had no success accounted since: a success after a pause restores it.
C3_AbandonOnlyWithoutSuccess ==
  mainpc \in {"stopping", "aborted"} => pausesNoSucc >= _MAX_RETRIES

\* C4: during a cooldown pause no work item that had not started begins.
C4_NoStartDuringPause == [][mainpc = "sleeping" => started' = started]_vars

\* C5: download() of an identifier whose destination exists and is not
\* empty returns success in its first step, having made no request, and
\* leaves the staging directory and the destination tree as they are.
C5_SkipWithoutNetwork ==
  [][\A i \in DOMAIN futures :
       LET it == futures[i]
           p  == generate_path(it.id)
       IN  (it.pc = "start" /\ dest[p].exists /\ dest[p].files # {} /\ Moved(i))
           => /\ futures'[i].pc = "ret"
              /\ futures'[i].res = "skip"
              /\ futures'[i].reqs = <<>>
              /\ UNCHANGED fs]_vars

\* C5 witness: an identifier downloaded earlier in the run (the tree is
\* empty at the start) has been skipped
C5_Witness ==
  \E i \in DOMAIN futures : futures[i].res = "skip" /\ futures[i].reqs = <<>>

\* C6 as stated: the outcome of a skipped identifier changes neither the
\* failure counter, nor the pause count, nor the completed count.
C6_SkipNotAccounted ==
  [][(Delivered /\ Head(futures).res = "skip")
       => (failures' = failures /\ retries' = retries /\ count' = count)]_vars

\* C6 amended: the outcome of a skipped identifier leaves the failure
\* counter and the pause count as they are, triggers no pause or break,
\* and adds one to the completed count.
C6_SkipCountedOnly ==
  [][(Delivered /\ Head(futures).res = "skip")
       => /\ failures' = failures
          /\ retries' = retries
          /\ mainpc' = "loop"
          /\ count' = count + 1]_vars

\* C6 witness: the outcome accounted last was a success (every success of
\* this specification is a skip), after failures and a pause
C6_Witness == streak = 0 /\ failures > 0 /\ retries > 0 /\ count > failures

\* position of the first request of a kind in the requests of an item, 0
\* if there is none
FirstReq(reqs, kind) ==
  IF kind \in Range(reqs) THEN Min({x \in DOMAIN reqs : reqs[x] = kind}) ELSE 0

\* C7: after a 404 of the default-branch fetch the scrape comes before the
\* API call; the API is never called in a pipeline whose scrape yielded a
\* URL, and it is called when the scrape yielded not-found.
C7_ScrapeBeforeApi ==
  \A i \in DOMAIN futures :
    LET it == futures[i]
    IN  /\ "api" \in Range(it.reqs)
             => /\ 0 < FirstReq(it.reqs, "scrape")
                /\ FirstReq(it.reqs, "scrape") < FirstReq(it.reqs, "api")
                /\ it.scr = "nf"
        /\ it.scr = "url" => "api" \notin Range(it.reqs)
        /\ it.scr = "nf" => (it.pc = "api" \/ "api" \in Range(it.reqs))
        /\ "scrape" \in Range(it.reqs) => it.reqs[1] = "default"

\* C7 witness: a pipeline went through the scrape and then the API
C7_Witness ==
  \E i \in DOMAIN futures :
    /\ futures[i].reqs = <<"default", "scrape", "api">>
    /\ futures[i].pc = "fetch2"

\* C8: no error of one item leaves do_download and ends get_sources.
C8_NoErrorEscapes == mainpc \notin {"raising", "crashed"}

\* the staging paths a running item writes: its archive file and, once
\* the archive is open, its extraction directory
InExtraction(it) == it.pc \in {"entry", "makedirs", "rename"}

\* C9: two items running at the same time, of different identifiers,
\* never have the same archive file or the same extraction directory.
C9_DistinctStagingPaths ==
  \A i, j \in Running :
    (i # j /\ futures[i].id # futures[j].id)
      => /\ (futures[i].outfile # NoFile /\ futures[j].outfile # NoFile)
               => futures[i].outfile # futures[j].outfile
         /\ (InExtraction(futures[i]) /\ InExtraction(futures[j]))
               => Outdir(futures[i].id) # Outdir(futures[j].id)

\* the extraction of the archive of a repository
Extraction(id) ==
  [exists |-> TRUE,
   files |-> {[name |-> c.name, data |-> Written(Outdir(id), c).data] :
                c \in {Archive(id)[k] : k \in 2..Len(Archive(id))}}]

\* C10: with more than one worker, distinct known identifiers and no
\* failing fetch or extraction, the run ends normally and every identifier
\* has its own repository's extraction at its destination.
C10_OneDirectoryPerIdentifier ==
  (mainpc \in {"done", "aborted", "crashed"} /\ threads > 1 /\ clean)
    => /\ mainpc = "done"
       /\ \A id \in seen : dest[generate_path(id)] = Extraction(id)

\* the loop of get_sources run by one thread over the outcomes of a
\* worklist l from position p on, each item being finished when its
\* result is asked for: the counters and the way the loop ends
RECURSIVE Sequential(_, _, _)
Sequential(l, p, st) ==
  IF p > Len(l) THEN [st EXCEPT !.pc = "done"]
  ELSE LET f1 == st.failures + (IF l[p] \in RepoIds THEN 0 ELSE 1)
       IN  IF f1 < _MAX_FAILURES
           THEN Sequential(l, p + 1, [st EXCEPT !.failures = f1,
                                                !.count = st.count + 1])
           ELSE IF st.retries <= _MAX_RETRIES
           THEN Sequential(l, p + 1, [st EXCEPT !.failures = 0,
                                                !.retries = st.retries + 1,
                                                !.count = st.count + 1])
           ELSE [st EXCEPT !.failures = f1, !.pc = "aborted"]

\* C11: for a given worklist with given outcomes, the failure counter, the
\* pause count, the completed count and the way the run ends (worklist
\* exhausted or abandoned) at the end of get_sources are those of the
\* sequential loop, for every worker count and every order in which the
\* workers finish.
C11_CountersIndependentOfSchedule ==
  mainpc \in {"done", "aborted"}
    => [failures |-> failures, retries |-> retries, count |-> count,
        pc |-> mainpc]
         = Sequential(id_list, 1, [failures |-> 0, retries |-> 0, count |-> 0,
                                   pc |-> "loop"])

\* C11 witness: a run of several workers was abandoned while a worker had
\* finished an item out of turn (its result was never asked for), on a
\* worklist that has successes and failures
C11_Witness ==
  /\ mainpc = "aborted"
  /\ threads > 1
  /\ futures # <<>>
  /\ 3 \in Range(id_list)
  /\ UnknownId \in Range(id_list)

\* the number a path spells, read left to right without the slashes
PathNumber(p) ==
  p[1][1] * Pow10(7) + p[1][2] * Pow10(6) + p[2][1] * Pow10(5)
    + p[2][2] * Pow10(4) + p[3][1] * Pow10(3) + p[3][2] * Pow10(2)
    + p[4][1] * Pow10(1) + p[4][2]

\* C12: for an identifier in [0, 10^8) generate_path returns four groups
\* of two decimal digits, which read left to right are the identifier
\* padded with zeros to 8 digits.
C12_PathIsPaddedDecimal ==
  result # <<>>
    => \A k \in 1..2 :
         (0 <= arg[k] /\ arg[k] < Pow10(PathDigits))
           => /\ Len(result[k]) = 4
              /\ \A g \in 1..4 : /\ Len(result[k][g]) = 2
                                 /\ result[k][g][1] \in 0..9
                                 /\ result[k][g][2] \in 0..9
              /\ PathNumber(result[k]) = arg[k]

\* C12 witness: repository 7182480 leads to the path 07/18/24/80
C12_Witness ==
  /\ result # <<>>
  /\ arg[1] = 7182480
  /\ result[1] = << <<0, 7>>, <<1, 8>>, <<2, 4>>, <<8, 0>> >>

\* C13: two distinct identifiers of a worklist, of any sign and of any
\* number of digits, have two different destination paths.
C13_DistinctPaths ==
  (result # <<>> /\ arg[1] # arg[2]) => result[1] # result[2]

\* C14: in every state of a run in which no lookup, fetch or extraction
\* met an error, the destination of an identifier is absent, an empty
\* directory, or the complete extraction of one archive: a directory is
\* never seen there with a part of an extraction or with files of
\* several.
C14_DestinationNeverPartial ==
  \A p \in Paths :
    \/ ~clean
    \/ ~dest[p].exists
    \/ dest[p].files = {}
    \/ \E r \in RepoIds : dest[p] = Extraction(r)

\* C15: once the loop is abandoned, no item in flight is dropped or
\* changed by anything but its own worker, get_sources returns (the
\* "Done" message) only when no worker runs an item, and every item that
\* was in flight has then reached its own end.
C15_AbandonWaitsForWorkers ==
  [][mainpc = "stopping"
       => /\ Len(futures') = Len(futures)
          /\ \A i \in DOMAIN futures :
                futures[i].pc = "ret" => futures'[i] = futures[i]
          /\ mainpc' \in {"stopping", "aborted"}
          /\ mainpc' = "aborted"
                => \A i \in DOMAIN futures :
                     /\ futures[i].pc = "ret"
                     /\ futures[i].res \in {"done", "fail", "skip", "exc"}]_vars

\* C15 witness: the loop is abandoned while a worker is about to rename
\* its extraction
C15_Witness ==
  /\ mainpc = "stopping"
  /\ \E i \in DOMAIN futures : futures[i].pc = "rename"

\* the step is the extraction of a file entry by the worker of future i
ExtractsFile(i) ==
  /\ futures[i].pc = "entry"
  /\ futures[i].k <= Len(Archive(futures[i].id))
  /\ Moved(i)
  /\ ~IsDirEntry(Archive(futures[i].id)[futures[i].k])

\* what the claim wants at the path of an entry: the stored bytes of a
\* text (an empty file is a text), nothing for a binary
Wanted(root, c) ==
  [root |-> root, name |-> c.name,
   data |-> IF c.content = <<>> \/ c.magic \in {"ASCII text", "UTF-8 Unicode text"}
            THEN c.content ELSE <<>>]

InFallback(it) ==
  \/ it.pc \in {"scrape", "api"}
  \/ "scrape" \in Range(it.reqs)
  \/ "api" \in Range(it.reqs)

\* C17: the scrape and the API are asked only after the fetch of the
\* default branch raised an error with the status code 404; an item whose
\* fetch raised another error, with or without a status code, has asked
\* neither and has returned a failure.
C17_FallbackOnlyAfterNotFound ==
  \A i \in DOMAIN futures :
    LET it == futures[i]
    IN  /\ InFallback(it) => (~it.ex.ok /\ it.ex.hascode /\ it.ex.code = 404)
        /\ (~it.ex.ok /\ ~(it.ex.hascode /\ it.ex.code = 404))
              => /\ it.pc = "ret"
                 /\ it.res = "fail"
                 /\ it.reqs = <<"default">>

\* C17 witness: a fetch of the default branch raised an error without a
\* status code and the item returned a failure after that one request
C17_Witness ==
  \E i \in DOMAIN futures :
    /\ ~futures[i].ex.ok
    /\ ~futures[i].ex.hascode
    /\ futures[i].res = "fail"
    /\ futures[i].reqs = <<"default">>

\* the step is one of the thread that runs the loop of get_sources: a
\* result is delivered to it, or it wakes up from a pause
LoopStep ==
  \/ Delivered
  \/ mainpc = "sleeping" /\ mainpc' = "loop"

\* C18: count, failures and retries change only in a step of the thread
\* that runs the loop of get_sources, never in a step of a worker, and a
\* step of the loop changes no item of a worker; every outcome delivered
\* adds int(not success) to the failure counter, whatever the workers do
\* in between.
C18_CountersOwnedByLoop ==
  [][/\ <<count, failures, retries>>' # <<count, failures, retries>>
          => /\ LoopStep
             /\ \A i \in DOMAIN futures' :
                  futures'[i] = futures[i + Len(futures) - Len(futures')]
     /\ (Delivered /\ Head(futures).res # "exc")
          => /\ failures' = failures
                  + (IF Head(futures).res \in {"skip", "done"} THEN 0 ELSE 1)
             /\ count' \in {count, count + 1}
             /\ retries' \in {retries, retries + 1}]_vars

\* C18 witness: with several workers, one is extracting an archive while
\* the loop has counted failures and pauses
C18_Witness ==
  /\ threads > 1
  /\ failures > 0
  /\ retries > 0
  /\ count > 0
  /\ \E i \in Running : futures[i].pc = "entry"

\* C19: when unzip_archive raises for an item whose archive is in the
\* staging directory, the item returns a failure and its archive is still
\* there; an item that has returned is not run again; and an archive
\* leaves the staging directory only in the step that follows the
\* extraction of the last entry of the item that fetched it.
C19_FailedExtractionKeepsArchive ==
  [][/\ \A i \in DOMAIN futures :
          (Moved(i) /\ futures[i].pc = "unzip"
             /\ futures[i].outfile \in zips /\ futures'[i].pc # "entry")
            => /\ futures'[i].pc = "ret"
               /\ futures'[i].res = "fail"
               /\ futures[i].outfile \in zips'
     /\ \A i \in DOMAIN futures : Moved(i) => futures[i].pc # "ret"
     /\ \A f \in zips \ zips' :
          \E i \in DOMAIN futures :
            /\ Moved(i)
            /\ futures[i].outfile = f
            /\ futures[i].pc = "entry"
            /\ futures[i].k > Len(Archive(futures[i].id))
            /\ futures'[i].pc = "makedirs"]_vars

\* C19 witness: an item has returned a failure from the extraction and
\* its archive is in the staging directory
C19_Witness ==
  \E i \in DOMAIN futures :
    /\ futures[i].pc = "ret"
    /\ futures[i].res = "fail"
    /\ futures[i].outfile # NoFile
    /\ futures[i].outfile \in zips

\* C20: the pipelines are started one per position of the worklist, in
\* the order of the worklist (the count of the positions started goes up
\* by one with every start and never down); an item that has left its
\* first step never comes back to it and an item that has returned makes
\* no further step; the end of a pause resets the failure counter, starts
\* nothing and changes no item.
C20_EachPositionStartedOnce ==
  [][/\ started' \in {started, started + 1}
     /\ (Len(futures') > Len(futures)) <=> (started' = started + 1)
     /\ Len(futures') > Len(futures)
          => /\ SubSeq(futures', 1, Len(futures)) = futures
             /\ Len(futures') = Len(futures) + 1
             /\ futures'[Len(futures')].id \in {id_list[started'], 0}
     /\ \A i \in DOMAIN futures :
          Moved(i) => /\ futures[i].pc # "ret"
                      /\ futures'[i].pc # "start"
                      /\ futures'[i].id \in {futures[i].id, 0}
     /\ (mainpc = "sleeping" /\ mainpc' = "loop")
          => (futures' = futures /\ started' = started /\ failures' = 0)]_vars

\* C20 witness: after the pauses and with the whole worklist started, an
\* item whose fetch failed has returned
C20_Witness ==
  /\ retries > 0
  /\ started = Len(id_list)
  /\ \E i \in DOMAIN futures :
       futures[i].res = "fail" /\ futures[i].reqs # <<>>

\* C21: the executor has at least one worker, and the number of items
\* whose pipeline has started and not ended is never above the number of
\* workers.
C21_InFlightAtMostThreads ==
  /\ threads >= 1
  /\ Cardinality(Running) <= threads

\* C21 witness: every worker of an executor of several runs an item
C21_Witness ==
  /\ threads > 1
  /\ Cardinality(Running) = threads

\* every run comes to an end: get_sources returns or raises
Terminates == <>(mainpc \in {"done", "aborted", "crashed"})

\* C22: every run over a finite worklist whose items all come to an end
\* ends with the worklist exhausted or with the rest of it abandoned.
C22_EndsByExhaustionOrAbandon == <>(mainpc \in {"done", "aborted"})

\* C23: the k-th pause of a run lasts k times 300 seconds, so every pause
\* is longer than the one before it; and when the loop resumes after a
\* pause the failure counter is 0.
C23_PausesEscalate ==
  [][/\ \A k \in DOMAIN slept' : slept'[k] = k * 300
     /\ \A k \in DOMAIN slept' : k > 1 => slept'[k] > slept'[k - 1]
     /\ (mainpc = "sleeping" /\ mainpc' # "sleeping")
          => (mainpc' = "loop" /\ failures' = 0)]_vars

\* C23 witness: the loop has resumed after its fourth pause
C23_Witness ==
  /\ Len(slept) = _MAX_RETRIES + 1
  /\ mainpc = "loop"
  /\ failures = 0

\* the page has the marker, and a link after it and before Download ZIP
HasLinkInRegion(t) ==
  \E m, h, z \in DOMAIN t :
    /\ t[m] = "MARK"
    /\ t[h] = "HREF"
    /\ t[z] = "ZIP"
    /\ m < h
    /\ h < z

\* C24: get_archive_url_by_scraping never raises, and it returns a URL
\* exactly when the page came with status 200 and has the marker and a
\* link between the marker and Download ZIP; else it returns None.
C24_ScrapeUrlOnlyFromLink ==
  result # <<>>
    => /\ ~result[1].raised
       /\ ~result[1].value.none
            <=> (arg[1].status = 200 /\ HasLinkInRegion(arg[1].text))

\* C25: when the credentials are rejected, the outcome of an item that
\* asked the API is not counted as a failure of the item: the loop counts
\* nothing and the run ends there.
C25_RejectedCredentialsAbort ==
  [][(Delivered /\ "api" \in Range(Head(futures).reqs))
       => /\ failures' = failures
          /\ count' = count
          /\ mainpc' \notin {"loop", "sleeping"}]_vars

\* the pipeline of the item is past its extraction
Committing(it) == it.pc \in {"makedirs", "rename"}

\* C26: the destination directories and their ancestors are created or
\* changed only by an item that has fetched and extracted its archive,
\* and such an item does not return a failure any more: an item that
\* returns a failure has left the destination tree as it was.
C26_FailureLeavesDestination ==
  [][/\ (dest' # dest \/ parents' # parents)
          => \E i \in DOMAIN futures : Moved(i) /\ Committing(futures[i])
     /\ \A i \in DOMAIN futures :
          (Moved(i) /\ Committing(futures[i]))
            => /\ futures[i].reqs = <<"fetched">>
               /\ futures'[i].res # "fail"
     /\ \A i \in DOMAIN futures :
          (Moved(i) /\ futures'[i].res = "fail")
            => (dest' = dest /\ parents' = parents)]_vars

\* C26 witness: an item has returned a failure from the extraction and
\* the destination tree is empty
C26_Witness ==
  /\ \E i \in DOMAIN futures :
       futures[i].res = "fail" /\ futures[i].outfile # NoFile
  /\ parents = {}
  /\ \A p \in Paths : ~dest[p].exists

\* the step submits a work item, the last of futures'
Submitted == Len(futures') = Len(futures) + 1

\* C27: do_download of an identifier unknown to the metadata store returns
\* a failure at once, with no request made and the file system as it was;
\* the loop adds that outcome to the failure counter, and the one that
\* brings the counter to 10 triggers a pause (the break once the pauses
\* are used up), as a failed download does.
C27_UnknownIdIsFailure ==
  [][/\ (Submitted /\ futures'[Len(futures')].id = UnknownId)
          => /\ futures'[Len(futures')].pc = "ret"
             /\ futures'[Len(futures')].res = "fail"
             /\ futures'[Len(futures')].reqs = <<>>
             /\ fs' = fs
     /\ (Delivered /\ Head(futures).id = UnknownId)
          => /\ failures' = failures + 1
             /\ IF failures' < _MAX_FAILURES
                THEN mainpc' = "loop" /\ count' = count + 1
                ELSE IF retries <= _MAX_RETRIES
                THEN mainpc' = "sleeping" /\ retries' = retries + 1
                ELSE mainpc' = "stopping"]_vars

\* C27 witness: the first ten outcomes, all of unknown identifiers (no
\* other outcome of these worklists is a failure), have brought the first
\* pause
C27_Witness ==
  /\ mainpc = "sleeping"
  /\ retries = 1
  /\ failures = _MAX_FAILURES
  /\ count = _MAX_FAILURES - 1
  /\ streak = _MAX_FAILURES

====
